---- MODULE Spec2Model ----
(***************************************************************************)
(* Model of the mind-map synthesis pipeline of backend/api/mindmap_api.py: *)
(* text metrics, outline parser, tree builder, fan layout and the          *)
(* generate / preview request handlers.                                    *)
(*                                                                         *)
(* Text is a sequence of Unicode code points (Python's ord), so that the   *)
(* wide / narrow classification ord(c) > 127 is computed, not assumed.     *)
(***************************************************************************)
EXTENDS Integers, Sequences, FiniteSets, TLC

(* ------------------------------------------------------------------ *)
(* Characters used by the code                                        *)
(* ------------------------------------------------------------------ *)
HASH == 35
DASH == 45
SP == 32
NL == 10
TICK == 96
LETTER_A == 65
LETTER_I == 73
ZH_REN == 20154
\* the ideographic space U+3000: white space to strip() and split(), and a
\* wide character to calculate_text_width
IDEO_SP == 12288

\* the characters str.strip() and str.split() take as white space: the code
\* points c with chr(c).isspace(), among them U+00A0 and the ideographic
\* space U+3000
Whitespace ==
    {9, 10, 11, 12, 13, 28, 29, 30, 31, 32, 133, 160, 5760}
      \cup (8192..8202) \cup {8232, 8233, 8239, 8287, 12288}

(* ------------------------------------------------------------------ *)
(* Python string primitives                                           *)
(* ------------------------------------------------------------------ *)
RECURSIVE LStrip(_, _)
\* str.lstrip(chars): drop every leading character that is in chars
LStrip(s, chars) ==
    IF s # <<>> /\ Head(s) \in chars THEN LStrip(Tail(s), chars) ELSE s

RECURSIVE RStrip(_, _)
RStrip(s, chars) ==
    IF s # <<>> /\ s[Len(s)] \in chars
    THEN RStrip(SubSeq(s, 1, Len(s) - 1), chars)
    ELSE s

\* str.strip()
Strip(s) == RStrip(LStrip(s, Whitespace), Whitespace)

\* str.startswith(prefix)
StartsWith(s, prefix) ==
    Len(s) >= Len(prefix) /\ SubSeq(s, 1, Len(prefix)) = prefix

RECURSIVE SplitAcc(_, _, _)
SplitAcc(s, sep, cur) ==
    IF s = <<>> THEN <<cur>>
    ELSE IF Head(s) = sep THEN <<cur>> \o SplitAcc(Tail(s), sep, <<>>)
    ELSE SplitAcc(Tail(s), sep, Append(cur, Head(s)))

\* str.split(sep) for a one-character separator: always at least one piece
Split(s, sep) == SplitAcc(s, sep, <<>>)

RECURSIVE SplitWsAcc(_, _)
SplitWsAcc(s, cur) ==
    IF s = <<>> THEN (IF cur = <<>> THEN <<>> ELSE <<cur>>)
    ELSE IF Head(s) \in Whitespace
         THEN (IF cur = <<>> THEN <<>> ELSE <<cur>>) \o SplitWsAcc(Tail(s), <<>>)
         ELSE SplitWsAcc(Tail(s), Append(cur, Head(s)))

\* str.split() without argument: the maximal runs of non-whitespace
SplitWords(s) == SplitWsAcc(s, <<>>)

RECURSIVE Join(_, _)
\* sep.join(parts)
Join(parts, sep) ==
    IF parts = <<>> THEN <<>>
    ELSE IF Len(parts) = 1 THEN parts[1]
    ELSE parts[1] \o sep \o Join(Tail(parts), sep)

(* ------------------------------------------------------------------ *)
(* Outline parser                                                     *)
(* ------------------------------------------------------------------ *)
\* title of a '#' line: line.lstrip('# ').strip()
HeadingTitle(line) == Strip(LStrip(line, {HASH, SP}))

\* title of a '-' line: line.lstrip('- ').strip()
ItemTitle(line) == Strip(LStrip(line, {DASH, SP}))

\* the loop body of parse_markdown_to_simple_structure for one physical line
ParseLine(structure, rawline) ==
    LET line == Strip(rawline) IN
    IF line = <<>> THEN structure
    ELSE IF Head(line) = HASH
         THEN Append(structure,
                     [level |-> Len(line) - Len(LStrip(line, {HASH})),
                      title |-> HeadingTitle(line),
                      type  |-> "heading"])
    ELSE IF Head(line) = DASH
         THEN Append(structure,
                     [level |-> 0, title |-> ItemTitle(line), type |-> "item"])
    ELSE structure

RECURSIVE ParseLines(_, _)
ParseLines(structure, lines) ==
    IF lines = <<>> THEN structure
    ELSE ParseLines(ParseLine(structure, Head(lines)), Tail(lines))

parse_markdown_to_simple_structure(markdown_content) ==
    ParseLines(<<>>, Split(Strip(markdown_content), NL))

(* ------------------------------------------------------------------ *)
(* Text metrics.  The code computes widths in binary floating point     *)
(* (IEEE 754 double, round to nearest, ties to even).  A double is kept  *)
(* here as the exact decimal value in tenths of a pixel together with    *)
(* the rounding error the multiplications by 0.9 and 0.6 have added, in  *)
(* units of 2^-53 / 5.  The literals are the doubles                     *)
(*     0.9 = 0x1.ccccccccccccdp-1 = 9/10 + 2^-53 / 5                     *)
(*     0.6 = 0x1.3333333333333p-1 = 6/10 - 2^-53 / 5                     *)
(* and only the low 16 bits of their 53-bit mantissas are needed to      *)
(* round a product n * 0.9 or n * 0.6 with n < 2^15.                     *)
(* ------------------------------------------------------------------ *)
WIDE_ABOVE == 127
WIDE_TENTHS == 9
NARROW_TENTHS == 6
\* the mantissas of the doubles 0.9 and 0.6, modulo 2^16
WIDE_MANTISSA_LOW == 52429
NARROW_MANTISSA_LOW == 13107

CountWide(text) == Cardinality({i \in 1..Len(text) : text[i] > WIDE_ABOVE})

RECURSIVE HighBit(_)
\* the power of two 2^k with 2^k <= n < 2^(k+1), for n >= 1
HighBit(n) == IF n < 2 THEN 1 ELSE 2 * HighBit(n \div 2)

RECURSIVE DroppedBits(_, _)
\* 2^t for the number t of bits the 53-bit rounding drops from the exact
\* product of the integer n >= 1 and the mantissa of the literal tenths/10:
\* the largest power of two p >= from with p / 2 <= n * tenths / 10
DroppedBits(n_tenths, from) ==
    IF 10 * from <= n_tenths
    THEN DroppedBits(n_tenths, 2 * from)
    ELSE from

\* the rounding error of the double product n * literal against the decimal
\* n * tenths / 10, in units of 2^-53 / 5; drift is the literal's own error
\* in that unit (+1 for 0.9, -1 for 0.6), low its mantissa modulo 2^16
FloatMulExcess(n, tenths, low, drift) ==
    IF n = 0 THEN 0
    ELSE LET p == DroppedBits(n * tenths, 1)
             rem == (n * (low % p)) % p
             odd == ((n * (low % (2 * p))) % (2 * p)) >= p
             up == 2 * rem > p \/ (2 * rem = p /\ odd)
         IN drift * n - 5 * rem + (IF up THEN 5 * p ELSE 0)

\* calculate_text_width(text, font_size): the double nearest to
\* tenths / 10 + excess * 2^-53 / 5
calculate_text_width(text, font_size) ==
    LET chinese_chars == CountWide(text)
        english_chars == Len(text) - chinese_chars
    IN [tenths |-> chinese_chars * font_size * WIDE_TENTHS
                   + english_chars * font_size * NARROW_TENTHS,
        excess |-> FloatMulExcess(chinese_chars * font_size, WIDE_TENTHS,
                                  WIDE_MANTISSA_LOW, 1)
                   + FloatMulExcess(english_chars * font_size, NARROW_TENTHS,
                                    NARROW_MANTISSA_LOW, -1)]

\* calculate_text_width(text, font_size) <= max_width, for an integer
\* max_width: decided by the decimal values unless they are equal; then the
\* sum is above max_width when its excess is more than half the gap between
\* max_width and the next double
Fits(text, max_width, font_size) ==
    LET width == calculate_text_width(text, font_size) IN
    \/ width.tenths < 10 * max_width
    \/ /\ width.tenths = 10 * max_width
       /\ \/ max_width = 0
          \/ width.excess <= 5 * HighBit(max_width)

\* mutant: the overflowing word does not start the next line
WrapStep_WordLost(st, word, max_width, font_size) ==
    LET test_line == st.current_line
                     \o (IF st.current_line # <<>> THEN <<SP>> ELSE <<>>)
                     \o word
    IN IF Fits(test_line, max_width, font_size)
       THEN [st EXCEPT !.current_line = test_line]
       ELSE [lines |-> IF st.current_line # <<>>
                       THEN Append(st.lines, st.current_line)
                       ELSE st.lines,
             current_line |-> <<>>]

\* one iteration of the packing loop; st = [lines, current_line]
WrapStep(st, word, max_width, font_size) ==
    LET test_line == st.current_line
                     \o (IF st.current_line # <<>> THEN <<SP>> ELSE <<>>)
                     \o word
    IN IF Fits(test_line, max_width, font_size)
       THEN [st EXCEPT !.current_line = test_line]
       ELSE [lines |-> IF st.current_line # <<>>
                       THEN Append(st.lines, st.current_line)
                       ELSE st.lines,
             current_line |-> word]

RECURSIVE WrapLoop(_, _, _, _)
WrapLoop(st, words, max_width, font_size) ==
    IF words = <<>> THEN st
    ELSE WrapLoop(WrapStep(st, Head(words), max_width, font_size),
                  Tail(words), max_width, font_size)

\* mutant: the empty packing is returned as it is, without the fallback
wrap_text_NoFallback(text, max_width, font_size) ==
    IF Fits(text, max_width, font_size) THEN <<text>>
    ELSE LET st == WrapLoop([lines |-> <<>>, current_line |-> <<>>],
                            SplitWords(text), max_width, font_size)
         IN IF st.current_line # <<>>
            THEN Append(st.lines, st.current_line)
            ELSE st.lines

wrap_text(text, max_width, font_size) ==
    IF Fits(text, max_width, font_size) THEN <<text>>
    ELSE LET st == WrapLoop([lines |-> <<>>, current_line |-> <<>>],
                            SplitWords(text), max_width, font_size)
             lines == IF st.current_line # <<>>
                      THEN Append(st.lines, st.current_line)
                      ELSE st.lines
         IN IF lines # <<>> THEN lines ELSE <<text>>

(* ------------------------------------------------------------------ *)
(* Tree builder (first loop of create_simple_svg_mindmap)             *)
(* tb = [main_topics, has_current]; current_topic, when set, is the   *)
(* last element of main_topics (the dict is appended by reference).   *)
(* ------------------------------------------------------------------ *)
\* mutant: an item goes to the first subtopic instead of the last
TreeStep_FirstSubtopic(tb, item) ==
    LET n == Len(tb.main_topics) IN
    IF item.type = "heading"
    THEN IF item.level = 1
         THEN [main_topics |-> Append(tb.main_topics,
                                      [title |-> item.title,
                                       subtopics |-> <<>>,
                                       items |-> <<>>]),
               has_current |-> TRUE]
         ELSE IF item.level = 2 /\ tb.has_current
         THEN [tb EXCEPT !.main_topics[n].subtopics =
                             Append(@, [title |-> item.title, items |-> <<>>])]
         ELSE tb
    ELSE IF item.type = "item" /\ tb.has_current
    THEN IF Len(tb.main_topics[n].subtopics) > 0
         THEN [tb EXCEPT !.main_topics[n].subtopics[1].items =
                             Append(@, item.title)]
         ELSE [tb EXCEPT !.main_topics[n].items = Append(@, item.title)]
    ELSE tb

TreeStep(tb, item) ==
    LET n == Len(tb.main_topics) IN
    IF item.type = "heading"
    THEN IF item.level = 1
         THEN [main_topics |-> Append(tb.main_topics,
                                      [title |-> item.title,
                                       subtopics |-> <<>>,
                                       items |-> <<>>]),
               has_current |-> TRUE]
         ELSE IF item.level = 2 /\ tb.has_current
         THEN [tb EXCEPT !.main_topics[n].subtopics =
                             Append(@, [title |-> item.title, items |-> <<>>])]
         ELSE tb
    ELSE IF item.type = "item" /\ tb.has_current
    THEN LET k == Len(tb.main_topics[n].subtopics) IN
         IF k > 0
         THEN [tb EXCEPT !.main_topics[n].subtopics[k].items =
                             Append(@, item.title)]
         ELSE [tb EXCEPT !.main_topics[n].items = Append(@, item.title)]
    ELSE tb

RECURSIVE TreeLoop(_, _)
TreeLoop(tb, structure) ==
    IF structure = <<>> THEN tb
    ELSE TreeLoop(TreeStep(tb, Head(structure)), Tail(structure))

BuildTopics(structure) ==
    TreeLoop([main_topics |-> <<>>, has_current |-> FALSE], structure).main_topics

(* ------------------------------------------------------------------ *)
(* Renderer: canned topic, root selection and the vertical fan         *)
(* ------------------------------------------------------------------ *)
\* the literal substituted when the tree builder found no topic
\* title '人工智慧的未來'; subtopics '技術發展' and '應用領域', three items each
CannedTopic ==
    [title |-> <<20154, 24037, 26234, 24935, 30340, 26410, 20358>>,
     subtopics |->
       << [title |-> <<25216, 34899, 30332, 23637>>,
           items |-> << <<27231, 22120, 23416, 32722, 36914, 27493>>,
                        <<28145, 24230, 23416, 32722, 31361, 30772>>,
                        <<33258, 28982, 35486, 35328, 34389, 29702>> >>],
          [title |-> <<25033, 29992, 38936, 22495>>,
           items |-> << <<37291, 30274, 35386, 26039>>,
                        <<26234, 33021, 20132, 36890>>,
                        <<37329, 34701, 31185, 25216>> >>] >>,
     items |-> <<>>]

\* main_topics after the "if not main_topics" substitution, then main_topics[0]
MainTopic(structure) ==
    LET main_topics == BuildTopics(structure) IN
    IF main_topics = <<>> THEN CannedTopic ELSE main_topics[1]

HEIGHT == 800
FAN_MARGIN == 200
MAX_SPACING == 150
ROOT_WRAP == 300
ROOT_FONT == 18
BRANCH_WRAP == 200
BRANCH_FONT == 14
ITEM_WRAP == 150
ITEM_FONT == 11
ITEM_LIMIT == 5
ITEM_PITCH == 30
ITEM_CENTRE == 2

Min(a, b) == IF a <= b THEN a ELSE b

\* main_y = height // 2
main_y == HEIGHT \div 2

\* branch_spacing = min(150, (height - 200) // total_branches); total_branches > 0
branch_spacing(total_branches) ==
    Min(MAX_SPACING, (HEIGHT - FAN_MARGIN) \div total_branches)

\* mutant: the spacing is halved before it is multiplied
start_y_HalfFirst(total_branches) ==
    main_y - ((total_branches - 1) * (branch_spacing(total_branches) \div 2))

\* start_y = main_y - (total_branches - 1) * branch_spacing // 2
\* ( * and // bind alike and associate to the left; - binds weaker)
start_y(total_branches) ==
    main_y - (((total_branches - 1) * branch_spacing(total_branches)) \div 2)

\* branch_y of the i-th subtopic, i counted from 0 as enumerate does
branch_y(total_branches, i) ==
    start_y(total_branches) + i * branch_spacing(total_branches)

\* the boxes of one subtopic: its row, its wrapped title, its first five items
BranchBox(subtopic, total_branches, i) ==
    LET by == branch_y(total_branches, i)
        shown == SubSeq(subtopic.items, 1, Min(ITEM_LIMIT, Len(subtopic.items)))
    IN [y |-> by,
        lines |-> wrap_text(subtopic.title, BRANCH_WRAP, BRANCH_FONT),
        items |-> [j \in 1..Len(shown) |->
                     [y |-> by + ((j - 1) - ITEM_CENTRE) * ITEM_PITCH,
                      lines |-> wrap_text(shown[j], ITEM_WRAP, ITEM_FONT)]]]

\* the drawing of main_topic: root box, then one BranchBox per subtopic;
\* with no subtopic the fan (and its division) is skipped
DrawTopic(main_topic) ==
    LET total_branches == Len(main_topic.subtopics) IN
    [root |-> [y |-> main_y,
               lines |-> wrap_text(main_topic.title, ROOT_WRAP, ROOT_FONT)],
     branches |-> IF total_branches > 0
                  THEN [i \in 1..total_branches |->
                          BranchBox(main_topic.subtopics[i], total_branches, i - 1)]
                  ELSE <<>>]

create_simple_svg_mindmap(structure) == DrawTopic(MainTopic(structure))

(* ------------------------------------------------------------------ *)
(* State                                                              *)
(* ------------------------------------------------------------------ *)
VARIABLES
    ROOMS,      \* participants_api.ROOMS: room code -> room record
    topics,     \* participants_api.topics, in insertion order
    votes,      \* participants_api.votes: comment id -> voters
    reqs,       \* one record per client: the handler call it has in flight
    pc,         \* position of the pure-function harness
    arg,        \* input handed to the pure function under check
    out         \* what the pure function returned

vars == <<ROOMS, topics, votes, reqs, pc, arg, out>>

\* Optional[T]: None is <<>>, a value v is <<v>>
None == <<>>
Some(v) == <<v>>

(* ------------------------------------------------------------------ *)
(* Markdown fence stripping (same statements in generate and preview)  *)
(* ------------------------------------------------------------------ *)
FENCE == <<TICK, TICK, TICK>>

\* mutant: only the opening fence line is dropped
StripFence_KeepLast(text) ==
    LET markdown_content == Strip(text) IN
    IF StartsWith(markdown_content, FENCE)
    THEN LET lines == Split(markdown_content, NL) IN
         IF Len(lines) > 2
         THEN Join(SubSeq(lines, 2, Len(lines)), <<NL>>)
         ELSE markdown_content
    ELSE markdown_content

\* text.strip(), then lines[1:-1] re-joined when it starts with a fence and
\* has more than two lines
StripFence(text) ==
    LET markdown_content == Strip(text) IN
    IF StartsWith(markdown_content, FENCE)
    THEN LET lines == Split(markdown_content, NL) IN
         IF Len(lines) > 2
         THEN Join(SubSeq(lines, 2, Len(lines) - 1), <<NL>>)
         ELSE markdown_content
    ELSE markdown_content

(* ------------------------------------------------------------------ *)
(* Prompt builder                                                     *)
(* ------------------------------------------------------------------ *)
VoteCount(comment_id, kind) ==
    IF comment_id \in DOMAIN votes THEN Cardinality(votes[comment_id][kind]) ELSE 0

\* the data build_mindmap_prompt renders into the prompt text; None for an
\* unknown room, otherwise a non-empty prompt
build_mindmap_prompt(room_code) ==
    IF room_code \notin DOMAIN ROOMS THEN None
    ELSE LET room_topics == SelectSeq(topics, LAMBDA t : t.room_id = room_code) IN
         Some([room |-> room_code,
               sections |->
                 [i \in 1..Len(room_topics) |->
                    [topic_name |-> room_topics[i].topic_name,
                     comments |->
                       [k \in 1..Len(room_topics[i].comments) |->
                          [nickname |-> room_topics[i].comments[k].nickname,
                           content |-> room_topics[i].comments[k].content,
                           good_votes |-> VoteCount(room_topics[i].comments[k].id, "good"),
                           bad_votes |-> VoteCount(room_topics[i].comments[k].id, "bad")]]]]])

(* ------------------------------------------------------------------ *)
(* Request handlers                                                   *)
(* ------------------------------------------------------------------ *)
Clients == {"c1", "c2"}

\* '討論總結', the title used when a room record has no title
DefaultTitle == <<35342, 35542, 32317, 32080>>

\* room.get('title', '討論總結')
TitleOf(room) == IF "title" \in DOMAIN room THEN room.title ELSE DefaultTitle

\* truthiness of an Optional[str]: neither None nor empty
TruthyCode(opt) == opt # None /\ opt[1] # ""
TruthyText(opt) == opt # None /\ opt[1] # <<>>

\* the canned default Markdown of generate
DefaultMarkdown ==
    <<35, 32, 65, 73, 24515, 26234, 22294, 31034, 20363, 10,
      35, 35, 32, 20154, 24037, 26234, 24935, 25033, 29992, 10,
      45, 32, 27231, 22120, 23416, 32722, 10,
      45, 32, 28145, 24230, 23416, 32722, 10,
      45, 32, 33258, 28982, 35486, 35328, 34389, 29702, 10,
      35, 35, 32, 25216, 34899, 30332, 23637, 10,
      45, 32, 31070, 32147, 32178, 36335, 10,
      45, 32, 22823, 22411, 35486, 35328, 27169, 22411, 10,
      45, 32, 38651, 33126, 35222, 35258>>

\* possible_paths, by position
PossiblePaths == 1..3

IdleReq ==
    [pc |-> "idle", op |-> "none", request |-> None, room_code |-> "",
     workspace_slug |-> None, source |-> "none", probed |-> None, file_path |-> 0,
     ai_calls |-> 0, ensure_calls |-> 0, ai_text |-> None, ai_failed |-> FALSE,
     markdown_content |-> None, structure |-> <<>>, svg |-> None,
     raised |-> 0, status |-> 0]

\* mutant: an outline without topics is rejected like an empty outline
Pipeline_Conflated(r, markdown_content) ==
    LET structure == parse_markdown_to_simple_structure(markdown_content) IN
    IF structure = <<>> \/ BuildTopics(structure) = <<>>
    THEN [r EXCEPT !.pc = "done", !.markdown_content = Some(markdown_content),
                   !.raised = 400, !.status = 400]
    ELSE [r EXCEPT !.pc = "done", !.markdown_content = Some(markdown_content),
                   !.structure = structure,
                   !.svg = Some(create_simple_svg_mindmap(structure)),
                   !.status = 200]

\* lines 412-436 of generate: parse, reject an empty outline, render, respond
Pipeline(r, markdown_content) ==
    LET structure == parse_markdown_to_simple_structure(markdown_content) IN
    IF structure = <<>>
    THEN [r EXCEPT !.pc = "done", !.markdown_content = Some(markdown_content),
                   !.raised = 400, !.status = 400]
    ELSE [r EXCEPT !.pc = "done", !.markdown_content = Some(markdown_content),
                   !.structure = structure,
                   !.svg = Some(create_simple_svg_mindmap(structure)),
                   !.status = 200]

\* the except-clause of generate's inner try: '# <title>'
FallbackMarkdown(room_code) == <<HASH, SP>> \o TitleOf(ROOMS[room_code])

\* what the handler's outer except-clauses make of an HTTPException raised
\* in its body: generate re-raises it, preview wraps it into a 500
GenerateRaise(r, code) == [r EXCEPT !.pc = "done", !.raised = code, !.status = code]
PreviewRaise(r, code) == [r EXCEPT !.pc = "done", !.raised = code, !.status = 500]

\* mutant: the workspace is asked for whether or not the room has one cached
EnterRoom_Uncached(r, room_code) ==
    [r EXCEPT !.pc = "await_ensure", !.ai_calls = @ + 1, !.ensure_calls = @ + 1]

\* the room branch up to its first await (shared shape of both handlers)
EnterRoom(r, room_code) ==
    LET workspace_slug == ROOMS[room_code].workspace_slug IN
    IF workspace_slug = None \/ workspace_slug[1] = ""
    THEN [r EXCEPT !.pc = "await_ensure", !.ai_calls = @ + 1,
                   !.ensure_calls = @ + 1]
    ELSE [r EXCEPT !.pc = "await_complete", !.workspace_slug = workspace_slug,
                   !.ai_calls = @ + 1]

(* ------------------------------------------------------------------ *)
(* Inputs of the request model                                        *)
(* ------------------------------------------------------------------ *)
\* '# A' / '- I'   a topic with one loose item
MD_TOPIC == <<HASH, SP, LETTER_A, NL, DASH, SP, LETTER_I>>
\* '- A'           bullets only: an outline without any level-1 heading
MD_ITEM == <<DASH, SP, LETTER_A>>
\* 'A I'           neither heading nor bullet: an empty outline
MD_PLAIN == <<LETTER_A, SP, LETTER_I>>

RoomCodeInputs == {None, Some(""), Some("r1"), Some("r2"), Some("zz")}
CustomInputs == {None, Some(<<>>), Some(MD_TOPIC), Some(MD_PLAIN)}
\* generate is called without a body, or with any room code and custom content
GenerateRequests ==
    {None} \cup {Some(b) : b \in [room_code : RoomCodeInputs,
                                   custom_content : CustomInputs]}
\* preview never reads custom_content
PreviewRequests ==
    {Some(b) : b \in [room_code : RoomCodeInputs, custom_content : {None}]}

\* what AIresult.txt holds at each candidate path, when it exists
FileContent(path) ==
    CASE path = 1 -> MD_TOPIC
      [] path = 2 -> MD_ITEM
      [] path = 3 -> MD_PLAIN

\* what ensure_workspace_exists may return: the handlers store the value
\* unvalidated, so besides identifiers the empty string and None are kept
WorkspaceIds == {Some("ws1"), Some("ws2"), Some(""), None}

\* texts transparent_fusion.process_request may return
AiTexts ==
    { \* '# A' / '## I' / '- A'
      <<HASH, SP, LETTER_A, NL, HASH, HASH, SP, LETTER_I, NL, DASH, SP, LETTER_A>>,
      \* '```' / '# A' / '```' followed by a newline
      FENCE \o <<NL, HASH, SP, LETTER_A, NL>> \o FENCE \o <<NL>>,
      \* '```' / '# A'  (two lines)
      FENCE \o <<NL, HASH, SP, LETTER_A>>,
      \* ' ```A' / '- A' / '## I' / 'A'  (opening fence only, four lines)
      <<SP>> \o FENCE \o <<LETTER_A, NL, DASH, SP, LETTER_A, NL,
                            HASH, HASH, SP, LETTER_I, NL, LETTER_A>>,
      \* '# A' / '```' / '- I' / '```'  (fence not at the start)
      <<HASH, SP, LETTER_A, NL>> \o FENCE \o <<NL, DASH, SP, LETTER_I, NL>> \o FENCE,
      \* '```'  (one line)
      FENCE,
      \* 'A I'  (no outline at all)
      MD_PLAIN }

(* ------------------------------------------------------------------ *)
(* generate                                                           *)
(* ------------------------------------------------------------------ *)
\* mutant: custom content is tried before the room code
GenerateBody_CustomFirst(request, existing) ==
    LET r0 == [IdleReq EXCEPT !.op = "generate", !.request = request] IN
    IF request # None /\ TruthyText(request[1].custom_content)
    THEN Pipeline([r0 EXCEPT !.source = "custom"], request[1].custom_content[1])
    ELSE IF request # None /\ TruthyCode(request[1].room_code)
    THEN LET room_code == request[1].room_code[1]
             r1 == [r0 EXCEPT !.source = "room", !.room_code = room_code]
         IN IF room_code \notin DOMAIN ROOMS THEN GenerateRaise(r1, 404)
            ELSE EnterRoom(r1, room_code)
    ELSE IF existing # {}
    THEN LET file_path == CHOOSE p \in existing : \A q \in existing : p <= q IN
         Pipeline([r0 EXCEPT !.source = "file", !.probed = Some(existing),
                             !.file_path = file_path],
                  FileContent(file_path))
    ELSE Pipeline([r0 EXCEPT !.source = "default", !.probed = Some(existing)],
                  DefaultMarkdown)

\* generate_mindmap from its entry to its first await, or to its response;
\* existing is the set of candidate paths os.path.exists finds
GenerateBody(request, existing) ==
    LET r0 == [IdleReq EXCEPT !.op = "generate", !.request = request] IN
    IF request # None /\ TruthyCode(request[1].room_code)
    THEN LET room_code == request[1].room_code[1]
             r1 == [r0 EXCEPT !.source = "room", !.room_code = room_code]
         IN IF room_code \notin DOMAIN ROOMS THEN GenerateRaise(r1, 404)
            ELSE IF build_mindmap_prompt(room_code) = None THEN GenerateRaise(r1, 400)
            ELSE EnterRoom(r1, room_code)
    ELSE IF request # None /\ TruthyText(request[1].custom_content)
    THEN Pipeline([r0 EXCEPT !.source = "custom"], request[1].custom_content[1])
    ELSE IF existing # {}
    THEN LET file_path == CHOOSE p \in existing : \A q \in existing : p <= q IN
         Pipeline([r0 EXCEPT !.source = "file", !.probed = Some(existing),
                             !.file_path = file_path],
                  FileContent(file_path))
    ELSE Pipeline([r0 EXCEPT !.source = "default", !.probed = Some(existing)],
                  DefaultMarkdown)

GenerateStart(c) ==
    /\ reqs[c].pc = "idle"
    /\ \E request \in GenerateRequests,
          existing \in SUBSET PossiblePaths :
         reqs' = [reqs EXCEPT ![c] = GenerateBody(request, existing)]
    /\ UNCHANGED <<ROOMS, topics, votes, pc, arg, out>>

(* ------------------------------------------------------------------ *)
(* preview                                                            *)
(* ------------------------------------------------------------------ *)
\* preview_mindmap_markdown from its entry to its first await or response
PreviewBody(request) ==
    LET r0 == [IdleReq EXCEPT !.op = "preview", !.request = request] IN
    IF ~TruthyCode(request[1].room_code) THEN PreviewRaise(r0, 400)
    ELSE LET room_code == request[1].room_code[1]
             r1 == [r0 EXCEPT !.source = "room", !.room_code = room_code]
         IN IF room_code \notin DOMAIN ROOMS THEN PreviewRaise(r1, 404)
            ELSE IF build_mindmap_prompt(room_code) = None THEN PreviewRaise(r1, 400)
            ELSE EnterRoom(r1, room_code)

PreviewStart(c) ==
    /\ reqs[c].pc = "idle"
    /\ \E request \in PreviewRequests :
         reqs' = [reqs EXCEPT ![c] = PreviewBody(request)]
    /\ UNCHANGED <<ROOMS, topics, votes, pc, arg, out>>

(* ------------------------------------------------------------------ *)
(* The awaited AI calls resolving                                     *)
(* ------------------------------------------------------------------ *)
\* mutant: the room record is replaced instead of one key being set
StoreWorkspace_Replace(rooms, room_code, workspace_slug) ==
    [rooms EXCEPT ![room_code] = [workspace_slug |-> workspace_slug]]

\* the registry after ROOMS[room_code]['workspace_slug'] = workspace_slug
StoreWorkspace(rooms, room_code, workspace_slug) ==
    [rooms EXCEPT ![room_code].workspace_slug = workspace_slug]

\* ensure_workspace_exists returned: store what it returned, call the AI
EnsureReturn(c) ==
    /\ reqs[c].pc = "await_ensure"
    /\ \E workspace_slug \in WorkspaceIds :
         /\ ROOMS' = StoreWorkspace(ROOMS, reqs[c].room_code, workspace_slug)
         /\ reqs' = [reqs EXCEPT ![c].pc = "await_complete",
                                 ![c].workspace_slug = workspace_slug,
                                 ![c].ai_calls = @ + 1]
    /\ UNCHANGED <<topics, votes, pc, arg, out>>

\* mutant: generate surfaces the AI failure as preview does
AiFailed_Surfaced(r) == PreviewRaise([r EXCEPT !.ai_failed = TRUE], 0)

\* the handler after an exception out of either AI call
AiFailed(r) ==
    IF r.op = "generate"
    THEN Pipeline([r EXCEPT !.ai_failed = TRUE], FallbackMarkdown(r.room_code))
    ELSE PreviewRaise([r EXCEPT !.ai_failed = TRUE], 0)

EnsureRaise(c) ==
    /\ reqs[c].pc = "await_ensure"
    /\ reqs' = [reqs EXCEPT ![c] = AiFailed(reqs[c])]
    /\ UNCHANGED <<ROOMS, topics, votes, pc, arg, out>>

\* the handler after process_request returned text
AiReturned(r, text) ==
    LET markdown_content == StripFence(text)
        r1 == [r EXCEPT !.ai_text = Some(text)]
    IN IF r.op = "generate"
       THEN Pipeline(r1, markdown_content)
       ELSE [r1 EXCEPT !.pc = "done",
                       !.markdown_content = Some(markdown_content),
                       !.status = 200]

CompleteReturn(c) ==
    /\ reqs[c].pc = "await_complete"
    /\ \E text \in AiTexts :
         reqs' = [reqs EXCEPT ![c] = AiReturned(reqs[c], text)]
    /\ UNCHANGED <<ROOMS, topics, votes, pc, arg, out>>

CompleteRaise(c) ==
    /\ reqs[c].pc = "await_complete"
    /\ reqs' = [reqs EXCEPT ![c] = AiFailed(reqs[c])]
    /\ UNCHANGED <<ROOMS, topics, votes, pc, arg, out>>

\* the response has been sent; the client may issue its next request
Respond(c) ==
    /\ reqs[c].pc = "done"
    /\ reqs' = [reqs EXCEPT ![c] = IdleReq]
    /\ UNCHANGED <<ROOMS, topics, votes, pc, arg, out>>

(* ------------------------------------------------------------------ *)
(* Specification of the request handlers                              *)
(* ------------------------------------------------------------------ *)
\* the registry when the first request arrives: room r1 titled 'A' without a
\* cached workspace, room r2 with an empty title and a cached workspace
InitialRooms ==
    [r \in {"r1", "r2"} |->
       IF r = "r1"
       THEN [title |-> <<LETTER_A>>, workspace_slug |-> None]
       ELSE [title |-> <<>>, workspace_slug |-> Some("ws0")]]

InitialTopics ==
    << [id |-> "t1", room_id |-> "r1", topic_name |-> <<LETTER_I>>,
        comments |-> << [id |-> "m1", nickname |-> <<LETTER_A>>,
                         content |-> <<LETTER_I>>] >>] >>

InitialVotes == [m \in {"m1"} |-> [good |-> {"u1"}, bad |-> {}]]

InitRegistry ==
    /\ ROOMS = InitialRooms
    /\ topics = InitialTopics
    /\ votes = InitialVotes
    /\ reqs = [c \in Clients |-> IdleReq]

Init ==
    /\ InitRegistry
    /\ pc = "off"
    /\ arg = <<>>
    /\ out = <<>>

Next ==
    \E c \in Clients :
        \/ GenerateStart(c)
        \/ PreviewStart(c)
        \/ EnsureReturn(c)
        \/ EnsureRaise(c)
        \/ CompleteReturn(c)
        \/ CompleteRaise(c)
        \/ Respond(c)

Spec == Init /\ [][Next]_vars

(* ------------------------------------------------------------------ *)
(* Specifications of the pure functions: the argument is drawn from a  *)
(* bounded set, one action applies the function                       *)
(* ------------------------------------------------------------------ *)
\* all sequences over S of length at most n
SeqUpTo(S, n) == UNION {[1..k -> S] : k \in 0..n}

Idle ==
    /\ InitRegistry
    /\ out = <<>>

Apply(result) ==
    /\ pc = "ready"
    /\ pc' = "done"
    /\ out' = result
    /\ UNCHANGED <<ROOMS, topics, votes, reqs, arg>>

\* --- outline parser ---
MaxMdLen == 4
MdAlphabet == {HASH, DASH, SP, NL, LETTER_A}

InitParse == Idle /\ pc = "ready" /\ arg \in SeqUpTo(MdAlphabet, MaxMdLen)
Parse == Apply(parse_markdown_to_simple_structure(arg))
SpecParse == InitParse /\ [][Parse]_vars

\* --- tree builder ---
MaxNodes == 4
\* titles 'A', 'B', 'x', 'y'
OutlineNodes ==
    [type : {"heading"}, level : {1, 2}, title : {<<65>>, <<66>>}]
    \cup {[type |-> "heading", level |-> 3, title |-> <<65>>]}
    \cup [type : {"item"}, level : {0}, title : {<<120>>, <<121>>}]

InitTree == Idle /\ pc = "ready" /\ arg \in SeqUpTo(OutlineNodes, MaxNodes)
Tree == Apply(BuildTopics(arg))
SpecTree == InitTree /\ [][Tree]_vars

\* --- wrap ---
MaxTextLen == 7
WrapAlphabet == {LETTER_A, ZH_REN, SP, IDEO_SP}
\* with font size 14, six wide characters and a narrow one are 84 pixels in
\* decimal and 84.00000000000001 in the code's arithmetic
WrapWidths == {20, 84}
WrapFonts == {11, 14}

InitWrap ==
    /\ Idle /\ pc = "ready"
    /\ arg \in [text : SeqUpTo(WrapAlphabet, MaxTextLen),
                max_width : WrapWidths, font_size : WrapFonts]
Wrap == Apply(wrap_text(arg.text, arg.max_width, arg.font_size))
SpecWrap == InitWrap /\ [][Wrap]_vars

\* --- fan layout ---
MaxBranches == 8
\* a subtopic without items, and one with six
LayoutSubtopics ==
    {[title |-> <<LETTER_I>>, items |-> <<>>],
     [title |-> <<LETTER_I>>, items |-> [j \in 1..6 |-> <<LETTER_A>>]]}

InitLayout ==
    /\ Idle /\ pc = "ready"
    /\ arg \in [title : {<<LETTER_A>>},
                subtopics : SeqUpTo(LayoutSubtopics, MaxBranches),
                items : {<<>>}]
Layout == Apply(DrawTopic(arg))
SpecLayout == InitLayout /\ [][Layout]_vars

(* ================================================================== *)
(* Properties                                                         *)
(* ================================================================== *)
\* the handler calls of kind op that have chosen their branch
Calls(op) == {c \in Clients : reqs[c].op = op /\ reqs[c].pc # "idle"}

RoomGiven(r) == r.request # None /\ TruthyCode(r.request[1].room_code)
CustomGiven(r) == r.request # None /\ TruthyText(r.request[1].custom_content)

\* C1: generate chooses its content source by strict precedence, room code
\* over custom content over the first existing file over the canned default,
\* and the Markdown it parses comes from that one source.
C1_SourcePrecedence ==
    \A c \in Calls("generate") :
      LET r == reqs[c] IN
      /\ r.source \in {"room", "custom", "file", "default"}
      /\ r.source = "room" <=> RoomGiven(r)
      /\ r.source = "custom" <=> (~RoomGiven(r) /\ CustomGiven(r))
      /\ r.source = "file" <=>
           (~RoomGiven(r) /\ ~CustomGiven(r) /\ r.probed # None /\ r.probed[1] # {})
      /\ r.source = "default" <=>
           (~RoomGiven(r) /\ ~CustomGiven(r) /\ r.probed = Some({}))
      /\ r.source \in {"room", "custom"} => r.probed = None
      /\ (r.pc = "done" /\ r.markdown_content # None) =>
           CASE r.source = "room" ->
                  /\ r.room_code = r.request[1].room_code[1]
                  /\ r.ai_failed \/ r.ai_text # None
             [] r.source = "custom" ->
                  r.markdown_content = r.request[1].custom_content
             [] r.source = "file" ->
                  /\ r.file_path \in r.probed[1]
                  /\ \A q \in r.probed[1] : r.file_path <= q
                  /\ r.markdown_content = Some(FileContent(r.file_path))
             [] r.source = "default" ->
                  r.markdown_content = Some(DefaultMarkdown)

\* a generate call given both an existing room and custom content took the
\* room path and was answered
C1_Witness ==
    \E c \in Calls("generate") :
      /\ reqs[c].pc = "done"
      /\ RoomGiven(reqs[c]) /\ CustomGiven(reqs[c])
      /\ reqs[c].source = "room"
      /\ reqs[c].ai_text # None

\* C2: when an AI call of generate raises for an existing room, the Markdown
\* becomes the single line '# <room title>' and the request still ends with
\* an image, not with an error.
C2_AiFailureRecovered ==
    \A c \in Calls("generate") :
      LET r == reqs[c] IN
      (r.pc = "done" /\ r.ai_failed) =>
         /\ r.room_code \in DOMAIN ROOMS
         /\ r.markdown_content = Some(<<HASH, SP>> \o ROOMS[r.room_code].title)
         /\ \A i \in 1..Len(r.markdown_content[1]) : r.markdown_content[1][i] # NL
         /\ r.status = 200
         /\ r.raised = 0
         /\ r.svg # None
         /\ r.svg[1].root.lines = <<ROOMS[r.room_code].title>>

\* generate answered after process_request raised, the workspace having been
\* created by this very request
C2_Witness ==
    \E c \in Calls("generate") :
      /\ reqs[c].pc = "done" /\ reqs[c].ai_failed
      /\ reqs[c].workspace_slug # None
      /\ reqs[c].ai_calls = 2
      /\ reqs[c].status = 200

\* C3: a request (generate or preview) naming a room code that is not in the
\* registry is answered 404 and makes no AI call.
C3_UnknownRoomIs404 ==
    \A c \in Clients :
      LET r == reqs[c] IN
      (r.pc = "done" /\ RoomGiven(r) /\ r.request[1].room_code[1] \notin DOMAIN ROOMS)
        => (r.status = 404 /\ r.ai_calls = 0)

\* C4 as stated: no request ever changes the room, topic or vote maps.
C4_RegistryNeverWritten ==
    ROOMS = InitialRooms /\ topics = InitialTopics /\ votes = InitialVotes

\* C4 amended: requests add or remove no room and change no title, topic or
\* vote; the only write is the workspace cache of a room that had none, which
\* receives a value returned by ensure_workspace_exists.
C4_OnlyWorkspaceCacheWritten ==
    /\ topics = InitialTopics
    /\ votes = InitialVotes
    /\ DOMAIN ROOMS = DOMAIN InitialRooms
    /\ \A k \in DOMAIN ROOMS :
         /\ TitleOf(ROOMS[k]) = TitleOf(InitialRooms[k])
         /\ DOMAIN ROOMS[k] = DOMAIN InitialRooms[k]
         /\ \/ ROOMS[k].workspace_slug = InitialRooms[k].workspace_slug
            \/ /\ InitialRooms[k].workspace_slug = None
               /\ ROOMS[k].workspace_slug \in WorkspaceIds

\* a request for r1 has stored a workspace identifier and been answered
C4_Witness ==
    /\ ROOMS["r1"].workspace_slug # None
    /\ \E c \in Clients : reqs[c].pc = "done" /\ reqs[c].room_code = "r1"
                          /\ reqs[c].workspace_slug # None

HasTopic(structure) ==
    \E i \in 1..Len(structure) :
       structure[i].type = "heading" /\ structure[i].level = 1

\* C5: in generate an empty outline is answered 400 without rendering, while
\* a non-empty outline without level-1 heading is rendered with the canned
\* two-subtopic topic.
C5_TwoEmptyStates ==
    \A c \in Calls("generate") :
      LET r == reqs[c] IN
      (r.pc = "done" /\ r.markdown_content # None) =>
        LET outline == parse_markdown_to_simple_structure(r.markdown_content[1]) IN
        /\ outline = <<>> => (r.status = 400 /\ r.svg = None)
        /\ (outline # <<>> /\ ~HasTopic(outline)) =>
             /\ r.status = 200
             /\ r.svg = Some(DrawTopic(CannedTopic))
             /\ Len(r.svg[1].branches) = 2
        /\ (outline # <<>> /\ HasTopic(outline)) =>
             (r.status = 200 /\ r.svg # None /\ r.svg # Some(DrawTopic(CannedTopic)))

\* one generate call rejected for an empty outline beside one that drew the
\* canned topic for a bullets-only outline
C5_Witness ==
    \E c, d \in Calls("generate") :
      /\ reqs[c].pc = "done" /\ reqs[c].markdown_content = Some(MD_PLAIN)
      /\ reqs[c].status = 400
      /\ reqs[d].pc = "done" /\ reqs[d].markdown_content = Some(MD_ITEM)
      /\ reqs[d].status = 200 /\ reqs[d].svg = Some(DrawTopic(CannedTopic))

(* ---------------- tree builder ---------------- *)
RECURSIVE Ascending(_)
\* the members of a finite set of integers, in increasing order
Ascending(S) ==
    IF S = {} THEN <<>>
    ELSE LET m == CHOOSE a \in S : \A b \in S : a <= b
         IN <<m>> \o Ascending(S \ {m})

\* least member of S, or otherwise when S is empty
LeastOr(S, otherwise) ==
    IF S = {} THEN otherwise ELSE CHOOSE a \in S : \A b \in S : a <= b

HeadingsAt(structure, level) ==
    {i \in 1..Len(structure) :
       structure[i].type = "heading" /\ structure[i].level = level}

\* titles of the item nodes strictly between positions lo and hi, in order
ItemsBetween(structure, lo, hi) ==
    LET at == Ascending({i \in 1..Len(structure) :
                           lo < i /\ i < hi /\ structure[i].type = "item"})
    IN [k \in 1..Len(at) |-> structure[at[k]].title]

\* the tree the outline denotes: a topic spans from its level-1 heading to the
\* next one, a subtopic from its level-2 heading to the next heading of level
\* 1 or 2; a bullet belongs to the nearest such span opened before it
ExpectedTopics(structure) ==
    LET tops == Ascending(HeadingsAt(structure, 1))
        TopicEnd(t) == LeastOr({j \in HeadingsAt(structure, 1) : j > t},
                               Len(structure) + 1)
        SubsOf(t) == {j \in HeadingsAt(structure, 2) : t < j /\ j < TopicEnd(t)}
        SubEnd(t, u) == LeastOr({j \in SubsOf(t) : j > u}, TopicEnd(t))
        Subtopics(t) ==
            LET subs == Ascending(SubsOf(t)) IN
            [k \in 1..Len(subs) |->
               [title |-> structure[subs[k]].title,
                items |-> ItemsBetween(structure, subs[k], SubEnd(t, subs[k]))]]
    IN [n \in 1..Len(tops) |->
          [title |-> structure[tops[n]].title,
           subtopics |-> Subtopics(tops[n]),
           items |-> ItemsBetween(structure, tops[n],
                                  LeastOr(SubsOf(tops[n]), TopicEnd(tops[n])))]]

\* C6: the tree builder is one left-to-right fold: every bullet lands, in
\* document order, in the last subtopic of the current topic, or in the
\* topic's loose items when it has no subtopic, or nowhere before the first
\* topic; a level-2 heading before the first topic is dropped.
C6_TreeIsFold ==
    pc = "done" =>
      /\ out = ExpectedTopics(arg)
      /\ Len(out) = Cardinality(HeadingsAt(arg, 1))

\* the outline '# A', '- x', '## B', '- y' has been folded into topic A with
\* loose item x and subtopic B holding y
C6_Witness ==
    /\ pc = "done"
    /\ arg = << [type |-> "heading", level |-> 1, title |-> <<65>>],
                [type |-> "item", level |-> 0, title |-> <<120>>],
                [type |-> "heading", level |-> 2, title |-> <<66>>],
                [type |-> "item", level |-> 0, title |-> <<121>>] >>
    /\ out = << [title |-> <<65>>,
                 subtopics |-> << [title |-> <<66>>, items |-> << <<121>> >>] >>,
                 items |-> << <<120>> >>] >>

(* ---------------- wrap ---------------- *)
\* C7: wrap returns [text] unchanged when the text fits; otherwise the lines,
\* re-joined with single spaces, hold exactly the words of the text, in
\* order, none lost and none doubled.
C7_WrapKeepsWords ==
    pc = "done" =>
      /\ out # <<>>
      /\ Fits(arg.text, arg.max_width, arg.font_size) => out = <<arg.text>>
      /\ ~Fits(arg.text, arg.max_width, arg.font_size) =>
           SplitWords(Join(out, <<SP>>)) = SplitWords(arg.text)

\* a text that did not fit was split into several lines, one of them a word
\* that alone is wider than the budget
C7_Witness ==
    /\ pc = "done"
    /\ ~Fits(arg.text, arg.max_width, arg.font_size)
    /\ Len(out) >= 2
    /\ \E i \in 1..Len(out) : ~Fits(out[i], arg.max_width, arg.font_size)
    /\ \E i \in 1..Len(out) : Len(SplitWords(out[i])) >= 2

(* ---------------- outline parser ---------------- *)
\* the node the claim gives a trimmed line: for '#', level = number of
\* leading '#', title = the line without those '#', trimmed; for '-', level
\* 0, title = the line without its leading '-', trimmed
NodeOfLine(line) ==
    IF Head(line) = HASH
    THEN [level |-> Len(line) - Len(LStrip(line, {HASH})),
          title |-> Strip(LStrip(line, {HASH})),
          type |-> "heading"]
    ELSE [level |-> 0, title |-> Strip(LStrip(line, {DASH})), type |-> "item"]

\* the trimmed, non-blank lines of a text that start with '#' or '-'
OutlineLines(text) ==
    LET trimmed == [i \in 1..Len(Split(text, NL)) |-> Strip(Split(text, NL)[i])]
    IN SelectSeq(trimmed, LAMBDA l : l # <<>> /\ Head(l) \in {HASH, DASH})

\* C8: the parser emits, in document order, exactly one node per trimmed
\* non-blank line starting with '#' or '-', a '#' line giving a heading whose
\* level counts the leading '#' and whose title is the line with the leading
\* '#' characters and whitespace stripped, a '-' line giving a level-0 item
\* whose title is the line with the leading '-' and whitespace stripped.
C8_ParserPerLine ==
    pc = "done" =>
      /\ Len(out) = Len(OutlineLines(arg))
      /\ \A i \in 1..Len(out) : out[i] = NodeOfLine(OutlineLines(arg)[i])

(* ---------------- fence stripping ---------------- *)
\* C9: in generate and in preview alike, the AI's text is trimmed and, when
\* it starts with a triple backtick and has more than two lines, loses
\* exactly its first and last line, the rest kept in order; otherwise the
\* trimmed text is kept as it is.
C9_FenceStripping ==
    \A c \in Clients :
      LET r == reqs[c] IN
      (r.pc = "done" /\ r.ai_text # None) =>
        LET trimmed == Strip(r.ai_text[1])
            lines == Split(trimmed, NL)
            kept == Split(r.markdown_content[1], NL)
        IN /\ r.markdown_content # None
           /\ IF SubSeq(trimmed, 1, 3) = <<TICK, TICK, TICK>> /\ Len(lines) > 2
              THEN /\ Len(kept) = Len(lines) - 2
                   /\ \A i \in 1..Len(kept) : kept[i] = lines[i + 1]
              ELSE r.markdown_content[1] = trimmed

\* generate and preview both received the four-line text ' ```A', '- A',
\* '## I', 'A' and both kept '- A', '## I'
C9_Witness ==
    \E c \in Calls("generate"), d \in Calls("preview") :
      /\ reqs[c].pc = "done" /\ reqs[d].pc = "done"
      /\ reqs[c].ai_text = reqs[d].ai_text
      /\ reqs[c].ai_text # None
      /\ Len(Split(Strip(reqs[c].ai_text[1]), NL)) = 4
      /\ reqs[c].markdown_content =
           Some(<<DASH, SP, LETTER_A, NL, HASH, HASH, SP, LETTER_I>>)
      /\ reqs[d].markdown_content = reqs[c].markdown_content

(* ---------------- fan layout ---------------- *)
\* the rows of the subtopic boxes drawn for the topic in arg
BranchRows == [i \in 1..Len(out.branches) |-> out.branches[i].y]

\* C10 as stated, in exact arithmetic: with n subtopics the spacing is
\* min(150, 600/n), the top row is 400 - (n-1)*spacing/2 and each row is one
\* spacing lower.  n * spacing = min(150 n, 600), so multiplied by 2n:
\* 2n * row(i) = 800 n - (n-1) * min(150 n, 600) + 2 i * min(150 n, 600).
C10_FanExact ==
    pc = "done" =>
      LET n == Len(arg.subtopics)
          nSpacing == Min(150 * n, 600)
      IN /\ Len(out.branches) = n
         /\ \A i \in 1..n :
              2 * n * BranchRows[i] = 800 * n - (n - 1) * nSpacing + 2 * (i - 1) * nSpacing

\* C10 amended: the divisions are floor divisions: spacing =
\* min(150, floor(600/n)), top row = 400 - floor((n-1)*spacing/2), each row
\* one spacing lower, so the fan is centred on 400 to within one pixel
\* (325 and 475 for n = 2); with n = 0 no row is drawn and nothing divided.
C10_FanFloored ==
    pc = "done" =>
      LET n == Len(arg.subtopics)
          spacing == IF 150 * n <= 600 THEN 150 ELSE 600 \div n
      IN /\ Len(out.branches) = n
         /\ out.root.y = 400
         /\ n >= 1 => 2 * BranchRows[1] \in {800 - (n - 1) * spacing,
                                             800 - (n - 1) * spacing + 1}
         /\ \A i \in 1..(n - 1) : BranchRows[i + 1] = BranchRows[i] + spacing
         /\ n >= 1 => BranchRows[1] + BranchRows[n] \in {800, 801}
         /\ n = 2 => BranchRows = <<325, 475>>

\* eight subtopics have been placed 75 apart from row 138 down to row 663
C10_Witness ==
    /\ pc = "done"
    /\ Len(arg.subtopics) = 8
    /\ BranchRows[1] = 138
    /\ BranchRows[8] = 663

(* ---------------- wrap: the fallback ---------------- *)
\* every whitespace-separated word of the text is wider than the budget
\* (vacuously so when the text has no word)
EveryWordOverflows(text, max_width, font_size) ==
    \A i \in 1..Len(SplitWords(text)) :
       ~Fits(SplitWords(text)[i], max_width, font_size)

\* C11 as stated: a text wider than the budget whose words all exceed the
\* budget on their own, or that has no word, comes back as [text].
C11_OverflowGivesText ==
    (pc = "done" /\ ~Fits(arg.text, arg.max_width, arg.font_size)
       /\ EveryWordOverflows(arg.text, arg.max_width, arg.font_size))
      => out = <<arg.text>>

\* C11 amended: for a text wider than the budget the packing is empty, and
\* [text] returned, exactly when the text has no word; when every word
\* exceeds the budget on its own, each word is returned as a line of its own.
C11_FallbackOnlyWithoutWords ==
    (pc = "done" /\ ~Fits(arg.text, arg.max_width, arg.font_size)) =>
      LET words == SplitWords(arg.text) IN
      /\ words = <<>> => out = <<arg.text>>
      /\ words # <<>> =>
           /\ \A i \in 1..Len(out) : SplitWords(out[i]) # <<>>
           /\ out = <<arg.text>> => Len(words) = 1
      /\ (words # <<>> /\ EveryWordOverflows(arg.text, arg.max_width, arg.font_size))
           => out = words

\* a text of spaces only, wider than the budget, came back as it was
C11_Witness ==
    /\ pc = "done"
    /\ ~Fits(arg.text, arg.max_width, arg.font_size)
    /\ arg.text # <<>>
    /\ SplitWords(arg.text) = <<>>
    /\ out = <<arg.text>>

(* ---------------- workspace caching ---------------- *)
\* the room holds a workspace identifier the handlers take as cached
Cached(rooms, room_code) ==
    /\ rooms[room_code].workspace_slug # None
    /\ rooms[room_code].workspace_slug[1] # ""

\* C12 as stated: a request calls ensure_workspace_exists only when its room
\* has no cached identifier, and at most once; the returned identifier is on
\* the room when process_request is called; a room once cached stays cached,
\* so no request that starts after a successful return calls ensure again.
C12_WorkspaceCaching ==
    [][ /\ \A c \in Clients :
             LET r == reqs[c]
                 s == reqs'[c]
             IN /\ (r.pc # "await_ensure" /\ s.pc = "await_ensure") =>
                      /\ r.pc = "idle"
                      /\ ~Cached(ROOMS, s.room_code)
                      /\ s.ensure_calls = 1
                /\ (r.pc # "await_complete" /\ s.pc = "await_complete") =>
                      /\ Cached(ROOMS', s.room_code)
                      /\ r.pc = "idle" =>
                           /\ Cached(ROOMS, s.room_code)
                           /\ s.ensure_calls = 0
                           /\ s.workspace_slug = ROOMS[s.room_code].workspace_slug
                      /\ r.pc = "await_ensure" =>
                           /\ s.ensure_calls = 1
                           /\ s.workspace_slug = ROOMS'[s.room_code].workspace_slug
                /\ s.ensure_calls <= 1
                /\ s.pc \in {"await_ensure", "await_complete", "done"} =>
                      s.ensure_calls >= r.ensure_calls
        /\ \A room_code \in DOMAIN ROOMS :
             Cached(ROOMS, room_code) => Cached(ROOMS', room_code)
      ]_vars

\* a request in flight is waiting for ensure_workspace_exists for the room
Ensuring(room_code) ==
    \E c \in Clients :
       reqs[c].pc = "await_ensure" /\ reqs[c].room_code = room_code

\* C12 amended: a request calls ensure_workspace_exists only when its room
\* holds no non-empty identifier, and at most once; whatever the call returns
\* is stored on the room, unvalidated, when process_request is called, so the
\* room is cached after the call exactly when a non-empty identifier was
\* returned; a cached room loses its identifier only to an empty return of a
\* call that was already in flight, so once a room is cached and no call for
\* it is in flight, no later request calls ensure for it again.
C12_NonEmptyIsCached ==
    [][ /\ \A c \in Clients :
             LET r == reqs[c]
                 s == reqs'[c]
             IN /\ (r.pc # "await_ensure" /\ s.pc = "await_ensure") =>
                      /\ r.pc = "idle"
                      /\ ~Cached(ROOMS, s.room_code)
                      /\ s.ensure_calls = 1
                /\ (r.pc # "await_complete" /\ s.pc = "await_complete") =>
                      /\ r.pc = "idle" =>
                           /\ Cached(ROOMS, s.room_code)
                           /\ s.ensure_calls = 0
                           /\ s.workspace_slug = ROOMS[s.room_code].workspace_slug
                      /\ r.pc = "await_ensure" =>
                           /\ s.ensure_calls = 1
                           /\ s.workspace_slug \in WorkspaceIds
                           /\ s.workspace_slug = ROOMS'[s.room_code].workspace_slug
                           /\ Cached(ROOMS', s.room_code)
                                <=> (s.workspace_slug # None
                                     /\ s.workspace_slug[1] # "")
                /\ s.ensure_calls <= 1
                /\ s.pc \in {"await_ensure", "await_complete", "done"} =>
                      s.ensure_calls >= r.ensure_calls
        /\ \A room_code \in DOMAIN ROOMS :
             /\ (Cached(ROOMS, room_code) /\ ~Cached(ROOMS', room_code)) =>
                   \E c \in Clients :
                      /\ reqs[c].pc = "await_ensure"
                      /\ reqs[c].room_code = room_code
                      /\ reqs'[c].pc = "await_complete"
                      /\ reqs'[c].workspace_slug = ROOMS'[room_code].workspace_slug
             /\ (Cached(ROOMS, room_code) /\ ~Ensuring(room_code)) =>
                   (Cached(ROOMS', room_code) /\ ~Ensuring(room_code)')
      ]_vars

\* two requests for room r1, interleaved at the await, have each called
\* ensure_workspace_exists once and were given different identifiers
C12_Witness ==
    \E c, d \in Clients :
       /\ c # d
       /\ reqs[c].room_code = "r1" /\ reqs[d].room_code = "r1"
       /\ reqs[c].ensure_calls = 1 /\ reqs[d].ensure_calls = 1
       /\ reqs[c].pc = "await_complete" /\ reqs[d].pc = "await_complete"
       /\ reqs[c].workspace_slug # reqs[d].workspace_slug
       /\ Cached(ROOMS, "r1")

====
